---- MODULE Spec2Model ----
(***************************************************************************)
(* A model of ingest_memes_modified.py: the duplicate resolver             *)
(* (find_duplicate), the known-item index (load_existing_hashes), the      *)
(* per-candidate fingerprinting (MemeCandidate.download_and_process) and   *)
(* the ingestion loop with its single batch insert (insert_pending).       *)
(*                                                                         *)
(* Representation of Python values:                                        *)
(*   - identifiers of stored memes are integers >= 0, None is -1 (None);   *)
(*     0 is the falsy identifier;                                          *)
(*   - md5 digests are strings, "None" is a NULL column;                   *)
(*   - a hex string is a sequence of characters 0..15 (the hex digits) and *)
(*     16 (a character that is not a hex digit); NoPhash is None;          *)
(*   - nsfw_score is counted in tenths (4 is 0.4);                         *)
(*   - an object attribute that was never assigned is absent from the      *)
(*     candidate's attrs set, and reading it raises AttributeError.        *)
(***************************************************************************)
EXTENDS Integers, Sequences, FiniteSets, TLC

\* ------------------------------------------------------------------ bounds
\* rows of the table given to the resolver on its own (SpecFD)
MaxRows == 2
\* rows of the table during a run of insert_pending (Spec)
MaxStoreRows == 1
\* length of the candidate list passed to insert_pending
MaxCands == 2

\* ------------------------------------------------------ python primitives
None == -1
NoPhash == <<None>>

\* bool(x) of an identifier: None and 0 are falsy
Truthy(x) == x # None /\ x # 0
\* bool(s) of an optional string column: None and "" are falsy
TruthyStr(s) == s # "None" /\ s # ""
\* bool(h) of an optional hex string: None and "" are falsy
TruthyHex(h) == h # NoPhash /\ h # << >>

HammingThreshold == 5
NsfwThreshold == 4

\* ------------------------------------------------------------- imagehash
\* int(numpy.sqrt(n))
ISqrt(n) == CHOOSE k \in 0..n : k * k <= n /\ (k + 1) * (k + 1) > n

\* the number of digits of v >= 0 written in the given base ("0" has one)
RECURSIVE NumDigits(_, _)
NumDigits(v, base) == IF v < base THEN 1 ELSE 1 + NumDigits(v \div base, base)

\* the value of the first n digits of s read in the given base:
\* int(s, 16), int(s, 2)
RECURSIVE Value(_, _, _)
Value(s, n, base) == IF n = 0 THEN 0 ELSE base * Value(s, n - 1, base) + s[n]

\* '{:0>{width}b}'.format(v) and '{:0>{width}x}'.format(v): the digits of v
\* in the given base, most significant first, padded on the left with zeros
\* up to width and never truncated
Format(v, width, base) ==
    LET w == IF NumDigits(v, base) > width THEN NumDigits(v, base) ELSE width
    IN  [k \in 1..w |-> (v \div (base ^ (w - k))) % base]

\* imagehash.hex_to_hash: the flattened bit array, or ok = FALSE when the
\* call raises (int() rejects the string, or the rows are ragged and numpy
\* refuses to build the array).
hex_to_hash(hexstr) ==
    IF hexstr = << >> \/ \E k \in 1..Len(hexstr) : hexstr[k] \notin 0..15
    THEN [ok |-> FALSE, bits |-> << >>]
    ELSE LET hash_size == ISqrt(Len(hexstr) * 4)
             binary_array == Format(Value(hexstr, Len(hexstr), 16), hash_size * hash_size, 2)
         IN  IF Len(binary_array) % hash_size # 0
             THEN [ok |-> FALSE, bits |-> << >>]
             ELSE [ok |-> TRUE, bits |-> binary_array]

\* ImageHash.__str__: the bit array as a hex string of ceil(len/4) digits
hash_to_hex(bits) == Format(Value(bits, Len(bits), 2), (Len(bits) + 3) \div 4, 16)

\* ImageHash.__sub__: the Hamming distance; raises TypeError (ok = FALSE)
\* when the two arrays differ in size
hash_sub(a, b) ==
    IF Len(a) # Len(b) THEN [ok |-> FALSE, dist |-> 0]
    ELSE [ok |-> TRUE, dist |-> Cardinality({k \in 1..Len(a) : a[k] # b[k]})]

\* ------------------------------------------------ the images of the model
\* The byte strings a download can return.
Images == {"imgA", "imgB", "imgC"}

\* hashlib.md5(img_data).hexdigest(): one digest per byte string
md5_hexdigest(img_data) ==
    CASE img_data = "imgA" -> "d1"
      [] img_data = "imgB" -> "d2"
      [] img_data = "imgC" -> "d3"

\* Image.open(...).convert('RGB') then imagehash.phash: the hash bits, or
\* ok = FALSE when decoding raises. imgB is not an image.
image_phash(img_data) ==
    CASE img_data = "imgA" -> [ok |-> TRUE, bits |-> <<0,0,0,0, 0,0,0,0, 0,0,0,0, 1,1,1,1>>]
      [] img_data = "imgB" -> [ok |-> FALSE, bits |-> << >>]
      [] img_data = "imgC" -> [ok |-> TRUE, bits |-> <<0,0,0,0, 0,0,0,0, 0,0,0,0, 0,0,0,0>>]

\* requests.get + raise_for_status: failure, or the bytes of the image
Responses ==
    {[ok |-> FALSE, content |-> ""]} \cup {[ok |-> TRUE, content |-> d] : d \in Images}

\* predict.classify on one image: raises, or the summed porn+hentai+sexy score
ClassifierOutcomes ==
    {[called |-> TRUE, raises |-> TRUE, score |-> 0]}
        \cup {[called |-> TRUE, raises |-> FALSE, score |-> s] : s \in {1, 4}}

\* the classifier is not invoked: no handle, or the download failed before
NotCalled == [called |-> FALSE, raises |-> FALSE, score |-> 0]

\* ------------------------------------------------------- the stored table
\* The md5 and phash columns of a stored row: NULL, a digest / a hex string
\* of 16 bits ("0000", "001f"), one that is not hex ("0g00"), one of 4 bits ("f").
StoredMd5 == {"None", "d1", "d2"}
StoredPhash == {NoPhash, <<0,0,0,0>>, <<0,0,1,15>>, <<0,16,0,0>>, <<15>>}
FirstIds == {0, 1}

\* The tables the select can return: up to max rows, identifiers assigned
\* in sequence from the first one.
Tables(md5s, phashes, max) ==
    UNION {
        { [k \in 1..n |-> [id |-> f + k - 1, md5 |-> m[k], phash |-> p[k]]] :
            m \in [1..n -> md5s], p \in [1..n -> phashes], f \in FirstIds }
        : n \in 0..max }

\* the tables a run of insert_pending is checked against
StoreTables == Tables({"None", "d1"}, {NoPhash, <<0,0,1,15>>}, MaxStoreRows)

\* the tables the resolver is checked against on its own
ResolverTables == Tables(StoredMd5, StoredPhash, MaxRows)

\* ------------------------------------------------- load_existing_hashes
\* existing_md5 after the first k rows: later rows overwrite earlier ones
RECURSIVE Md5Map(_, _)
Md5Map(data, k) ==
    IF k = 0 THEN << >>
    ELSE LET m == Md5Map(data, k - 1)
             row == data[k]
         IN  IF TruthyStr(row.md5)
             THEN [x \in (DOMAIN m) \cup {row.md5} |-> IF x = row.md5 THEN row.id ELSE m[x]]
             ELSE m

\* existing_phash after the first k rows: (phash, id) of the rows with a phash
RECURSIVE PhashList(_, _)
PhashList(data, k) ==
    IF k = 0 THEN << >>
    ELSE LET l == PhashList(data, k - 1)
             row == data[k]
         IN  IF TruthyHex(row.phash)
             THEN Append(l, [ph |-> row.phash, mid |-> row.id])
             ELSE l

load_existing_hashes(data) ==
    [existing_md5 |-> Md5Map(data, Len(data)), existing_phash |-> PhashList(data, Len(data))]

\* ------------------------------------------------------- find_duplicate
\* mutant: the threshold test is "dist <= 5"
RECURSIVE ScanPhash_inclusive(_, _, _)
ScanPhash_inclusive(cand_hash, existing_phash, k) ==
    IF k > Len(existing_phash) THEN None
    ELSE LET h == hex_to_hash(existing_phash[k].ph)
             d == hash_sub(cand_hash, h.bits)
         IN  IF h.ok /\ d.ok /\ d.dist <= HammingThreshold
             THEN existing_phash[k].mid
             ELSE ScanPhash_inclusive(cand_hash, existing_phash, k + 1)

\* the for loop over existing_phash from position k on
RECURSIVE ScanPhash(_, _, _)
ScanPhash(cand_hash, existing_phash, k) ==
    IF k > Len(existing_phash) THEN None
    ELSE LET h == hex_to_hash(existing_phash[k].ph)
             d == hash_sub(cand_hash, h.bits)
         IN  IF h.ok /\ d.ok /\ d.dist < HammingThreshold
             THEN existing_phash[k].mid
             ELSE ScanPhash(cand_hash, existing_phash, k + 1)

\* mutant: the perceptual scan runs before the md5 lookup
find_duplicate_near_first(candidate, existing_md5, existing_phash) ==
    IF "md5" \notin candidate.attrs THEN [raised |-> TRUE, ret |-> None]
    ELSE LET cand_hash == hex_to_hash(candidate.phash)
             near == IF TruthyHex(candidate.phash) /\ cand_hash.ok
                     THEN ScanPhash(cand_hash.bits, existing_phash, 1)
                     ELSE None
         IN  IF near # None THEN [raised |-> FALSE, ret |-> near]
             ELSE IF candidate.md5 \in DOMAIN existing_md5
             THEN [raised |-> FALSE, ret |-> existing_md5[candidate.md5]]
             ELSE [raised |-> FALSE, ret |-> None]

\* raised = TRUE is the AttributeError of reading candidate.md5 before
\* download_and_process has assigned it
find_duplicate(candidate, existing_md5, existing_phash) ==
    IF "md5" \notin candidate.attrs THEN [raised |-> TRUE, ret |-> None]
    ELSE IF candidate.md5 \in DOMAIN existing_md5
    THEN [raised |-> FALSE, ret |-> existing_md5[candidate.md5]]
    ELSE IF TruthyHex(candidate.phash)
    THEN LET cand_hash == hex_to_hash(candidate.phash)
         IN  IF cand_hash.ok
             THEN [raised |-> FALSE, ret |-> ScanPhash(cand_hash.bits, existing_phash, 1)]
             ELSE [raised |-> FALSE, ret |-> None]
    ELSE [raised |-> FALSE, ret |-> None]

\* --------------------------------------------------------- MemeCandidate
\* A candidate as constructed by fetch_reddit_posts: the five init fields
\* are set, md5 / phash / nsfw_score / duplicate_of are not yet attributes.
MemeCandidate(k) ==
    [title |-> k, image_url |-> k, source_url |-> k, author |-> k, score |-> k,
     attrs |-> {}, md5 |-> "", phash |-> NoPhash, nsfw_score |-> 0, duplicate_of |-> None]

\* mutant: a decode failure returns early like a download failure
download_and_process_decode_fatal(self, nsfw_model, resp, cls) ==
    IF ~resp.ok \/ ~image_phash(resp.content).ok THEN [self |-> self, ret |-> FALSE]
    ELSE LET img_data == resp.content
             ph == image_phash(img_data)
             nsfw_score == IF nsfw_model /\ ~cls.raises THEN cls.score ELSE 0
         IN  [self |-> [self EXCEPT !.attrs = @ \cup {"md5", "phash", "nsfw_score"},
                                    !.md5 = md5_hexdigest(img_data),
                                    !.phash = hash_to_hex(ph.bits),
                                    !.nsfw_score = nsfw_score],
              ret |-> nsfw_score < NsfwThreshold]

\* self after the call, and the value returned
download_and_process(self, nsfw_model, resp, cls) ==
    IF ~resp.ok THEN [self |-> self, ret |-> FALSE]
    ELSE LET img_data == resp.content
             ph == image_phash(img_data)
             nsfw_score == IF nsfw_model /\ ~cls.raises THEN cls.score ELSE 0
         IN  [self |-> [self EXCEPT !.attrs = @ \cup {"md5", "phash", "nsfw_score"},
                                    !.md5 = md5_hexdigest(img_data),
                                    !.phash = IF ph.ok THEN hash_to_hex(ph.bits) ELSE NoPhash,
                                    !.nsfw_score = nsfw_score],
              ret |-> nsfw_score < NsfwThreshold]

\* -------------------------------------------------------- insert_pending
\* mutant: the value returned by download_and_process gates the append
LoopBody_gated(cand, nsfw_model, resp, cls, existing_md5, existing_phash) ==
    LET dp == download_and_process(cand, nsfw_model, resp, cls)
        fd == find_duplicate(dp.self, existing_md5, existing_phash)
        dup_id == fd.ret
    IN  IF fd.raised THEN [raised |-> TRUE, cand |-> dp.self, append |-> FALSE]
        ELSE LET c == [dp.self EXCEPT !.attrs = @ \cup {"duplicate_of"},
                                      !.duplicate_of = dup_id]
             IN  [raised |-> FALSE, cand |-> c,
                  append |-> dp.ret /\ ~(Truthy(dup_id) /\ c.md5 \in DOMAIN existing_md5)]

\* One iteration of the for loop: the candidate after it, whether the
\* iteration raised, and whether the candidate was appended to to_insert.
LoopBody(cand, nsfw_model, resp, cls, existing_md5, existing_phash) ==
    LET dp == download_and_process(cand, nsfw_model, resp, cls)
        fd == find_duplicate(dp.self, existing_md5, existing_phash)
        dup_id == fd.ret
    IN  IF fd.raised THEN [raised |-> TRUE, cand |-> dp.self, append |-> FALSE]
        ELSE LET c == [dp.self EXCEPT !.attrs = @ \cup {"duplicate_of"},
                                      !.duplicate_of = dup_id]
             IN  [raised |-> FALSE, cand |-> c,
                  append |-> ~(Truthy(dup_id) /\ c.md5 \in DOMAIN existing_md5)]

\* mutant: each row is put at the front of the list
BuildRows_reversed(cands, queue) ==
    [j \in 1..Len(queue) |->
        LET cand == cands[queue[Len(queue) + 1 - j]]
        IN  [title |-> cand.title, image_url |-> cand.image_url,
             source_url |-> cand.source_url, author |-> cand.author,
             score |-> cand.score, md5 |-> cand.md5, phash |-> cand.phash,
             nsfw_score |-> cand.nsfw_score, duplicate_of |-> cand.duplicate_of,
             status |-> "approved"]]

\* the rows built from to_insert (references into the candidate list)
BuildRows(cands, queue) ==
    [j \in 1..Len(queue) |->
        LET cand == cands[queue[j]]
        IN  [title |-> cand.title, image_url |-> cand.image_url,
             source_url |-> cand.source_url, author |-> cand.author,
             score |-> cand.score, md5 |-> cand.md5, phash |-> cand.phash,
             nsfw_score |-> cand.nsfw_score, duplicate_of |-> cand.duplicate_of,
             status |-> "approved"]]

VARIABLES
    store,          \* the rows of the memes table the select returns
    NSFW_MODEL,     \* TRUE when a classifier handle was loaded
    candidates,     \* the list passed to insert_pending
    pc,             \* "start", "loop", "done", "exit" (sys.exit(1)), "raised"
    existing_md5,
    existing_phash,
    i,              \* candidates processed so far
    to_insert,      \* positions in candidates of the queued candidates
    rows,           \* the rows passed to insert
    insert_calls,   \* calls of insert(rows).execute()
    stderr,         \* the message of error(), "" when it was not called
    env_log         \* per processed candidate: the response and classifier outcome

vars == <<store, NSFW_MODEL, candidates, pc, existing_md5, existing_phash, i,
          to_insert, rows, insert_calls, stderr, env_log>>

Init ==
    /\ store \in StoreTables
    /\ NSFW_MODEL \in BOOLEAN
    /\ \E n \in 0..MaxCands : candidates = [k \in 1..n |-> MemeCandidate(k)]
    /\ pc = "start"
    /\ existing_md5 = << >>
    /\ existing_phash = << >>
    /\ i = 0
    /\ to_insert = << >>
    /\ rows = << >>
    /\ insert_calls = 0
    /\ stderr = ""
    /\ env_log = << >>

\* load_existing_hashes returns the index
LoadOk ==
    /\ pc = "start"
    /\ existing_md5' = load_existing_hashes(store).existing_md5
    /\ existing_phash' = load_existing_hashes(store).existing_phash
    /\ pc' = "loop"
    /\ UNCHANGED <<store, NSFW_MODEL, candidates, i, to_insert, rows, insert_calls,
                   stderr, env_log>>

\* mutant: the failure is printed and the run goes on with an empty index
LoadFail_swallowed ==
    /\ pc = "start"
    /\ pc' = "loop"
    /\ stderr' = "Failed to fetch existing hashes"
    /\ UNCHANGED <<store, NSFW_MODEL, candidates, existing_md5, existing_phash, i,
                   to_insert, rows, insert_calls, env_log>>

\* the select raises: error() prints and exits
LoadFail ==
    /\ pc = "start"
    /\ pc' = "exit"
    /\ stderr' = "Failed to fetch existing hashes"
    /\ UNCHANGED <<store, NSFW_MODEL, candidates, existing_md5, existing_phash, i,
                   to_insert, rows, insert_calls, env_log>>

\* mutant: a queued candidate's md5 is added to existing_md5
ProcessCandidate_remember ==
    /\ pc = "loop"
    /\ i < Len(candidates)
    /\ \E resp \in Responses :
       \E cls \in IF resp.ok /\ NSFW_MODEL THEN ClassifierOutcomes ELSE {NotCalled} :
         LET k == i + 1
             r == LoopBody(candidates[k], NSFW_MODEL, resp, cls, existing_md5, existing_phash)
         IN  /\ candidates' = [candidates EXCEPT ![k] = r.cand]
             /\ env_log' = Append(env_log, [resp |-> resp, cls |-> cls])
             /\ i' = k
             /\ pc' = IF r.raised THEN "raised" ELSE "loop"
             /\ to_insert' = IF r.append THEN Append(to_insert, k) ELSE to_insert
             /\ existing_md5' =
                    IF r.append
                    THEN [x \in (DOMAIN existing_md5) \cup {r.cand.md5} |->
                            IF x = r.cand.md5 THEN k ELSE existing_md5[x]]
                    ELSE existing_md5
    /\ UNCHANGED <<store, NSFW_MODEL, existing_phash, rows, insert_calls, stderr>>

\* one iteration of the candidate loop; an AttributeError leaves it uncaught
ProcessCandidate ==
    /\ pc = "loop"
    /\ i < Len(candidates)
    /\ \E resp \in Responses :
       \E cls \in IF resp.ok /\ NSFW_MODEL THEN ClassifierOutcomes ELSE {NotCalled} :
         LET k == i + 1
             r == LoopBody(candidates[k], NSFW_MODEL, resp, cls, existing_md5, existing_phash)
         IN  /\ candidates' = [candidates EXCEPT ![k] = r.cand]
             /\ env_log' = Append(env_log, [resp |-> resp, cls |-> cls])
             /\ i' = k
             /\ pc' = IF r.raised THEN "raised" ELSE "loop"
             /\ to_insert' = IF r.append THEN Append(to_insert, k) ELSE to_insert
    /\ UNCHANGED <<store, NSFW_MODEL, existing_md5, existing_phash, rows, insert_calls,
                   stderr>>

\* nothing queued: print and return
ReturnEmpty ==
    /\ pc = "loop"
    /\ i = Len(candidates)
    /\ to_insert = << >>
    /\ pc' = "done"
    /\ UNCHANGED <<store, NSFW_MODEL, candidates, existing_md5, existing_phash, i,
                   to_insert, rows, insert_calls, stderr, env_log>>

\* the batch insert succeeds
InsertOk ==
    /\ pc = "loop"
    /\ i = Len(candidates)
    /\ to_insert # << >>
    /\ rows' = BuildRows(candidates, to_insert)
    /\ insert_calls' = insert_calls + 1
    /\ pc' = "done"
    /\ UNCHANGED <<store, NSFW_MODEL, candidates, existing_md5, existing_phash, i,
                   to_insert, stderr, env_log>>

\* the batch insert raises: error() prints and exits
InsertFail ==
    /\ pc = "loop"
    /\ i = Len(candidates)
    /\ to_insert # << >>
    /\ rows' = BuildRows(candidates, to_insert)
    /\ insert_calls' = insert_calls + 1
    /\ pc' = "exit"
    /\ stderr' = "Failed to insert memes"
    /\ UNCHANGED <<store, NSFW_MODEL, candidates, existing_md5, existing_phash, i,
                   to_insert, env_log>>

Next == LoadOk \/ LoadFail \/ ProcessCandidate \/ ReturnEmpty \/ InsertOk \/ InsertFail

Spec == Init /\ [][Next]_vars

\* ------------------------------------------- the resolver on its own
\* The candidates find_duplicate is applied to: md5 set, phash absent,
\* well formed ("000f", "0000", "f") or not hex ("0g00").
ResolverCandidates ==
    { [MemeCandidate(1) EXCEPT !.attrs = {"md5", "phash", "nsfw_score"},
                               !.md5 = m, !.phash = p] :
        m \in {"d1", "d3"},
        p \in {NoPhash, <<0,0,0,15>>, <<0,0,0,0>>, <<0,16,0,0>>, <<15>>} }

FDInit ==
    /\ store \in ResolverTables
    /\ NSFW_MODEL = FALSE
    /\ \E c \in ResolverCandidates : candidates = <<c>>
    /\ pc = "fd_start"
    /\ existing_md5 = << >>
    /\ existing_phash = << >>
    /\ i = 0
    /\ to_insert = << >>
    /\ rows = << >>
    /\ insert_calls = 0
    /\ stderr = ""
    /\ env_log = << >>

\* the index is built from the table
FDLoad ==
    /\ pc = "fd_start"
    /\ existing_md5' = load_existing_hashes(store).existing_md5
    /\ existing_phash' = load_existing_hashes(store).existing_phash
    /\ pc' = "fd_loaded"
    /\ UNCHANGED <<store, NSFW_MODEL, candidates, i, to_insert, rows, insert_calls,
                   stderr, env_log>>

\* find_duplicate is applied and its result kept in duplicate_of
FDResolve ==
    /\ pc = "fd_loaded"
    /\ candidates' = [candidates EXCEPT
           ![1].duplicate_of = find_duplicate(candidates[1], existing_md5, existing_phash).ret,
           ![1].attrs = @ \cup {"duplicate_of"}]
    /\ pc' = "fd_done"
    /\ UNCHANGED <<store, NSFW_MODEL, existing_md5, existing_phash, i, to_insert, rows,
                   insert_calls, stderr, env_log>>

FDNext == FDLoad \/ FDResolve

SpecFD == FDInit /\ [][FDNext]_vars

\* ===================================================================
\* Properties
\* ===================================================================
Range(s) == {s[k] : k \in 1..Len(s)}
Min(S) == CHOOSE x \in S : \A y \in S : x <= y

\* the download of the k-th candidate returned its bytes
Downloaded(k) == env_log[k].resp.ok
\* the digest of the bytes downloaded for the k-th candidate
ContentMd5(k) == md5_hexdigest(env_log[k].resp.content)
\* insert_pending is past a successful index load
Loaded == pc \in {"loop", "done", "exit", "raised"} /\ stderr # "Failed to fetch existing hashes"
\* insert_pending has ended: returned, exited or raised
Ended == pc \in {"done", "exit", "raised"}

\* the entry of existing_phash at position k decodes to as many bits as
\* the hex string ph and lies at Hamming distance < 5 from it
NearEntry(ph, k) ==
    LET c == hex_to_hash(ph)
        h == hex_to_hash(existing_phash[k].ph)
    IN  /\ c.ok /\ h.ok
        /\ Len(c.bits) = Len(h.bits)
        /\ Cardinality({b \in 1..Len(c.bits) : c.bits[b] # h.bits[b]}) \in 0..4

\* the Hamming distance between ph and the entry at position k is d
EntryAtDistance(ph, k, d) ==
    LET c == hex_to_hash(ph)
        h == hex_to_hash(existing_phash[k].ph)
    IN  /\ c.ok /\ h.ok
        /\ Len(c.bits) = Len(h.bits)
        /\ Cardinality({b \in 1..Len(c.bits) : c.bits[b] # h.bits[b]}) = d

\* C1 (as claimed): a candidate whose download failed is dropped and the run
\* goes on: no exception escapes the loop, the candidate is not queued, and
\* a run that has ended has processed every candidate.
C1_FailedDownloadIsDropped ==
    \A k \in 1..i :
        ~Downloaded(k) =>
            /\ pc # "raised"
            /\ k \notin Range(to_insert)
            /\ (Ended => i = Len(candidates))

\* C2 (as claimed): a downloaded candidate whose md5 is a key of existing_md5
\* is never queued nor submitted, whatever the matched identifier; one whose
\* md5 is not a key is queued, and is in the rows once they are submitted.
C2_ExactNeverOthersAlways ==
    \A k \in 1..i :
        Downloaded(k) =>
            IF ContentMd5(k) \in DOMAIN existing_md5
            THEN /\ k \notin Range(to_insert)
                 /\ \A j \in 1..Len(rows) : rows[j].image_url # k
            ELSE /\ k \in Range(to_insert)
                 /\ (insert_calls = 1 => \E j \in 1..Len(rows) : rows[j].image_url = k)

\* C3: whenever the candidate's md5 is a key of existing_md5, find_duplicate
\* returns existing_md5[md5], whatever the candidate's phash (absent, not
\* hex, or near another known item) and whatever existing_phash holds.
C3_ExactSupersedesNear ==
    (pc = "fd_done" /\ candidates[1].md5 \in DOMAIN existing_md5) =>
        candidates[1].duplicate_of = existing_md5[candidates[1].md5]

\* C3 witness: an exact match was returned although an entry of another
\* known item is within distance < 5 of the candidate's phash.
C3_Witness ==
    /\ pc = "fd_done"
    /\ candidates[1].md5 \in DOMAIN existing_md5
    /\ candidates[1].duplicate_of = existing_md5[candidates[1].md5]
    /\ \E k \in 1..Len(existing_phash) :
          /\ NearEntry(candidates[1].phash, k)
          /\ existing_phash[k].mid # existing_md5[candidates[1].md5]

\* C4: with no exact match and a well formed phash, find_duplicate returns
\* the identifier of the first entry of existing_phash, in list order, that
\* is comparable and at distance 0..4, and None when there is none.
C4_FirstNearMatch ==
    (/\ pc = "fd_done"
     /\ candidates[1].md5 \notin DOMAIN existing_md5
     /\ TruthyHex(candidates[1].phash)
     /\ hex_to_hash(candidates[1].phash).ok) =>
        LET near == {k \in 1..Len(existing_phash) : NearEntry(candidates[1].phash, k)}
        IN  IF near = {}
            THEN candidates[1].duplicate_of = None
            ELSE candidates[1].duplicate_of = existing_phash[Min(near)].mid

\* C4 witness: the first entry is at distance exactly 5 and is passed over,
\* the second is near and is the one returned.
C4_Witness ==
    /\ pc = "fd_done"
    /\ candidates[1].md5 \notin DOMAIN existing_md5
    /\ Len(existing_phash) >= 2
    /\ EntryAtDistance(candidates[1].phash, 1, 5)
    /\ NearEntry(candidates[1].phash, 2)
    /\ candidates[1].duplicate_of = existing_phash[2].mid
    /\ existing_phash[1].mid # existing_phash[2].mid

\* C5: once the index load has failed the run is over: it has exited, no
\* candidate was downloaded, fingerprinted or resolved, nothing is queued
\* and no insert is sent.
C5_LoadFailureIsFatal ==
    stderr = "Failed to fetch existing hashes" =>
        /\ pc = "exit"
        /\ i = 0
        /\ env_log = << >>
        /\ \A k \in 1..Len(candidates) : candidates[k].attrs = {}
        /\ to_insert = << >>
        /\ rows = << >>
        /\ insert_calls = 0

\* C5 witness: the load failed with candidates waiting.
C5_Witness ==
    /\ stderr = "Failed to fetch existing hashes"
    /\ pc = "exit"
    /\ Len(candidates) > 0

\* C6: for a candidate whose bytes were downloaded the iteration does not
\* raise; md5 is the digest of the bytes; phash is None when decoding
\* failed; nsfw_score is 0 when there is no classifier or it raised; the
\* candidate is resolved, and queued unless its md5 is a key of existing_md5.
C6_DegradedNotDropped ==
    \A k \in 1..i :
        Downloaded(k) =>
            /\ ~(pc = "raised" /\ k = i)
            /\ {"md5", "phash", "nsfw_score", "duplicate_of"} \subseteq candidates[k].attrs
            /\ candidates[k].md5 = ContentMd5(k)
            /\ (~image_phash(env_log[k].resp.content).ok => candidates[k].phash = NoPhash)
            /\ ((~NSFW_MODEL \/ env_log[k].cls.raises) => candidates[k].nsfw_score = 0)
            /\ (ContentMd5(k) \notin DOMAIN existing_md5 => k \in Range(to_insert))

\* C6 witness: a candidate whose image did not decode and whose classifier
\* call raised is queued.
C6_Witness ==
    \E k \in 1..i :
        /\ Downloaded(k)
        /\ ~image_phash(env_log[k].resp.content).ok
        /\ env_log[k].cls.raises
        /\ candidates[k].phash = NoPhash
        /\ candidates[k].nsfw_score = 0
        /\ k \in Range(to_insert)

\* the scores the classifier of the second run computes
AltScores == {3, 10}

\* the state of the loop after one more iteration, on entry n of a log of
\* responses and classifier outcomes
ReplayStep(st, log, n) ==
    LET r == LoopBody(st.cands[n], log[n].model, log[n].resp, log[n].cls,
                      existing_md5, existing_phash)
    IN  [cands |-> [st.cands EXCEPT ![n] = r.cand],
         to_insert |-> IF r.append THEN Append(st.to_insert, n) ELSE st.to_insert,
         raised |-> r.raised]

\* the run of the loop over entries n.. of the log, from state st; it stops
\* at the end of the log or when an iteration raises
RECURSIVE ReplayFrom(_, _, _)
ReplayFrom(st, log, n) ==
    IF n > Len(log) \/ st.raised THEN st
    ELSE ReplayFrom(ReplayStep(st, log, n), log, n + 1)

\* the run of the loop over a log, from fresh candidates
Replay(log) ==
    ReplayFrom([cands |-> [k \in 1..Len(candidates) |-> MemeCandidate(k)],
                to_insert |-> << >>, raised |-> FALSE], log, 1)

\* the log of this run, with the classifier computing score sc for candidate k
AltLog(k, sc) ==
    [n \in 1..Len(env_log) |->
        IF n = k
        THEN [resp |-> env_log[n].resp, model |-> TRUE,
              cls |-> [called |-> TRUE, raises |-> FALSE, score |-> sc]]
        ELSE [resp |-> env_log[n].resp, model |-> NSFW_MODEL, cls |-> env_log[n].cls]]

StripScore(rs) == [j \in 1..Len(rs) |-> [rs[j] EXCEPT !.nsfw_score = 0]]

\* C7: a second run over the same index and downloads, in which the
\* classifier computes another score for one candidate, queues the same
\* candidates in the same order and raises or not as this run does; the rows
\* of the two runs differ at most in the nsfw_score of that candidate's row.
C7_ScoreDoesNotGate ==
    Loaded =>
        /\ (insert_calls = 1 => rows = BuildRows(candidates, to_insert))
        /\ \A k \in 1..i :
             Downloaded(k) =>
               \A sc \in AltScores :
                 LET alt == Replay(AltLog(k, sc))
                     altrows == BuildRows(alt.cands, alt.to_insert)
                     ownrows == BuildRows(candidates, to_insert)
                 IN  /\ alt.raised = (pc = "raised")
                     /\ alt.cands[k].nsfw_score = sc
                     /\ alt.to_insert = to_insert
                     /\ StripScore(altrows) = StripScore(ownrows)
                     /\ \A j \in 1..Len(ownrows) :
                           to_insert[j] # k => altrows[j].nsfw_score = ownrows[j].nsfw_score

\* C7 witness: a candidate scored 0.4, for which download_and_process
\* returned False, is in the submitted rows.
C7_Witness ==
    /\ pc = "done"
    /\ insert_calls = 1
    /\ \E j \in 1..Len(rows) : rows[j].nsfw_score >= NsfwThreshold

\* C8 (as claimed): after the index load, at most one insert is sent, and
\* only when every candidate has been processed, with all queued records;
\* a run that has ended with candidates queued has sent exactly one insert;
\* one that ended with none queued sent none and returned normally; a
\* failed insert ends the run with an error exit.
C8_SingleBatchInsert ==
    Loaded =>
        /\ insert_calls <= 1
        /\ (insert_calls = 1 =>
              /\ i = Len(candidates)
              /\ to_insert # << >>
              /\ rows = BuildRows(candidates, to_insert))
        /\ (Ended =>
              IF to_insert # << >>
              THEN insert_calls = 1
              ELSE insert_calls = 0 /\ pc = "done")
        /\ (stderr = "Failed to insert memes" => pc = "exit")

\* C9: the queue holds input positions in increasing order, and the rows
\* sent to the store are one per queued candidate, in that order.
C9_BatchPreservesInputOrder ==
    /\ \A a, b \in 1..Len(to_insert) : a < b => to_insert[a] < to_insert[b]
    /\ Range(to_insert) \subseteq 1..i
    /\ insert_calls = 1 =>
          /\ Len(rows) = Len(to_insert)
          /\ \A j \in 1..Len(rows) : rows[j].image_url = candidates[to_insert[j]].image_url
          /\ \A a, b \in 1..Len(rows) : a < b => rows[a].image_url < rows[b].image_url

\* C9 witness: two candidates were submitted, the earlier one first.
C9_Witness ==
    /\ insert_calls = 1
    /\ Len(rows) = 2
    /\ rows[1].image_url = to_insert[1]
    /\ rows[2].image_url = to_insert[2]
    /\ to_insert[1] < to_insert[2]

\* two candidates of this run whose downloads returned the same bytes, with
\* an md5 that is not in the index
SameBytesNotKnown(a, b) ==
    /\ a < b
    /\ Downloaded(a) /\ Downloaded(b)
    /\ env_log[a].resp.content = env_log[b].resp.content
    /\ ContentMd5(a) \notin DOMAIN existing_md5

\* the index is the snapshot loaded at the start, and every processed
\* candidate's verdict is the resolver's answer against that snapshot
IndexIsSnapshot ==
    /\ existing_md5 = load_existing_hashes(store).existing_md5
    /\ existing_phash = load_existing_hashes(store).existing_phash
    /\ \A k \in 1..i :
          Downloaded(k) =>
             candidates[k].duplicate_of =
                find_duplicate(candidates[k], load_existing_hashes(store).existing_md5,
                               load_existing_hashes(store).existing_phash).ret

\* C10 (as claimed): the index stays the loaded snapshot, and two candidates
\* with the same bytes and an md5 outside the snapshot are both queued, each
\* with duplicate_of = None.
C10_FrameBothUnflagged ==
    Loaded =>
        /\ IndexIsSnapshot
        /\ \A a, b \in 1..i :
              SameBytesNotKnown(a, b) =>
                 /\ a \in Range(to_insert) /\ b \in Range(to_insert)
                 /\ candidates[a].duplicate_of = None
                 /\ candidates[b].duplicate_of = None

\* C10 (amended): the index stays the loaded snapshot, and two candidates
\* with the same bytes and an md5 outside the snapshot are both queued with
\* the same duplicate_of, which is None exactly when no entry of the
\* snapshot is within distance < 5 of their phash.
C10_FrameSameVerdict ==
    Loaded =>
        /\ IndexIsSnapshot
        /\ \A a, b \in 1..i :
              SameBytesNotKnown(a, b) =>
                 /\ a \in Range(to_insert) /\ b \in Range(to_insert)
                 /\ candidates[a].duplicate_of = candidates[b].duplicate_of
                 /\ (candidates[a].duplicate_of = None <=>
                        ~\E k \in 1..Len(existing_phash) :
                            /\ TruthyHex(candidates[a].phash)
                            /\ NearEntry(candidates[a].phash, k))

\* C10 witness: two candidates with the same bytes are both queued, both
\* flagged as near duplicates of the same known item.
C10_Witness ==
    \E a, b \in 1..i :
        /\ SameBytesNotKnown(a, b)
        /\ a \in Range(to_insert) /\ b \in Range(to_insert)
        /\ candidates[a].duplicate_of # None
        /\ candidates[b].duplicate_of = candidates[a].duplicate_of

====
